---- MODULE Spec2Model ----
(***************************************************************************)
(* Litchi mission CSV generator: waypoint validation                       *)
(* (litchi_csv_generator.validate_waypoint), row encoding and CSV          *)
(* serialisation (litchi_csv_generator.generate_litchi_csv) and the Flask  *)
(* handlers of app.py.                                                     *)
(*                                                                         *)
(* Text is a sequence of chunks.  A chunk is a string; the delimiter, the  *)
(* quote character, CR and LF are always chunks of their own, every other  *)
(* chunk is a run of characters that holds none of those four.             *)
(*                                                                         *)
(* A JSON leaf value is a record [k, n, s]:                                *)
(*   k = "int"   a Python int, n its value                                 *)
(*   k = "float" a finite Python float, n its value in units of 1/Scale    *)
(*   k = "str"   a Python str, s its characters                            *)
(*   k = "null"  None                                                      *)
(*   k = "nan"   the float nan (json.loads accepts the literal NaN)        *)
(*   k = "big"   an int beyond the range of a float (10**400)              *)
(***************************************************************************)
EXTENDS Integers, Sequences, FiniteSets, TLC

VARIABLES request, pc, idx, output, response, calls,
          wp, verdict, mission, csv_content

vars == <<request, pc, idx, output, response, calls,
          wp, verdict, mission, csv_content>>

(***************************************************************************)
(* Bounds of the model.                                                    *)
(***************************************************************************)
MaxWaypoints == 2
NumRequests == 2

(***************************************************************************)
(* Python values.                                                          *)
(***************************************************************************)
Int_(n) == [k |-> "int", n |-> n, s |-> <<>>]
Float_(u) == [k |-> "float", n |-> u, s |-> <<>>]
Str_(s) == [k |-> "str", n |-> 0, s |-> s]
None_ == [k |-> "null", n |-> 0, s |-> <<>>]
NaN_ == [k |-> "nan", n |-> 0, s |-> <<>>]
Big_ == [k |-> "big", n |-> 0, s |-> <<>>]

Comma == ","
Quote == "\""
CR == "\r"
LF == "\n"

DigitChars == <<"0", "1", "2", "3", "4", "5", "6", "7", "8", "9">>

IsDigit(c) == \E d \in 1..10 : DigitChars[d] = c

DigitVal(c) == (CHOOSE d \in 1..10 : DigitChars[d] = c) - 1

RECURSIVE NatStr(_)
NatStr(n) == IF n < 10 THEN <<DigitChars[n + 1]>>
             ELSE NatStr(n \div 10) \o <<DigitChars[(n % 10) + 1]>>

\* str(int)
IntStr(n) == IF n < 0 THEN <<"-">> \o NatStr(-n) ELSE NatStr(n)

RECURSIVE StripZeros(_)
StripZeros(ds) == IF Len(ds) > 1 /\ ds[Len(ds)] = "0"
                  THEN StripZeros(SubSeq(ds, 1, Len(ds) - 1))
                  ELSE ds

RECURSIVE PadZeros(_, _)
PadZeros(ds, width) == IF Len(ds) >= width THEN ds
                       ELSE PadZeros(<<"0">> \o ds, width)

RECURSIVE Pow10(_)
Pow10(e) == IF e = 0 THEN 1 ELSE 10 * Pow10(e - 1)

\* Fixed-point resolution of the modelled floats: 4 decimal places, the precision of
\* the coordinates of the example mission.
Scale == Pow10(4)

\* The number of decimal places Scale keeps.
ScaleDigits == CHOOSE e \in 0..9 : Pow10(e) = Scale

\* repr(float) of a finite float: the shortest decimal that reads back, always with
\* a fractional part (50.0 prints "50.0", 43.0347 prints "43.0347").
FiniteStr(u) ==
    LET a == IF u < 0 THEN -u ELSE u
    IN (IF u < 0 THEN <<"-">> ELSE <<>>)
       \o NatStr(a \div Scale) \o <<".">>
       \o StripZeros(PadZeros(NatStr(a % Scale), ScaleDigits))

\* A float: nan, or the finite value u/Scale.
F(u) == [nan |-> FALSE, u |-> u]
FNaN == [nan |-> TRUE, u |-> 0]

FloatStr(f) == IF f.nan THEN <<"n", "a", "n">> ELSE FiniteStr(f.u)

\* Python's comparisons of a float with an int literal: every comparison with nan
\* is False.
Lt(f, n) == ~f.nan /\ f.u < n * Scale
Gt(f, n) == ~f.nan /\ f.u > n * Scale

\* str(value), as an f-string and csv.writer format a value.  The digits of the int
\* beyond the float range are abridged to four chunks.
PyStr(v) ==
    CASE v.k = "int" -> IntStr(v.n)
      [] v.k = "float" -> FiniteStr(v.n)
      [] v.k = "str" -> v.s
      [] v.k = "null" -> <<"None">>
      [] v.k = "nan" -> <<"n", "a", "n">>
      [] v.k = "big" -> <<"1", "0" , "...", "0">>

(***************************************************************************)
(* float(): the conversions validate_waypoint performs.  The result is     *)
(* [exc, f]: exc is "none" and f the float, or exc names the exception.    *)
(***************************************************************************)
RECURSIVE DigitsVal(_)
DigitsVal(ds) == IF ds = <<>> THEN 0
                 ELSE 10 * DigitsVal(SubSeq(ds, 1, Len(ds) - 1)) + DigitVal(ds[Len(ds)])

\* float(str) for the decimal strings of the model: an optional sign, digits with at
\* most one point and at least one digit, or "nan".  Anything else is a ValueError.
StrToFloat(s) ==
    LET body == IF s # <<>> /\ s[1] = "-" THEN Tail(s) ELSE s
        sign == IF s # <<>> /\ s[1] = "-" THEN -1 ELSE 1
        dots == {i \in 1..Len(body) : body[i] = "."}
        wellformed == /\ \A i \in 1..Len(body) : IsDigit(body[i]) \/ body[i] = "."
                      /\ Cardinality(dots) <= 1
                      /\ \E i \in 1..Len(body) : IsDigit(body[i])
        dot == IF dots = {} THEN Len(body) + 1 ELSE CHOOSE i \in dots : TRUE
        ip == SubSeq(body, 1, dot - 1)
        fp == SubSeq(body, dot + 1, Len(body))
        fpad == SubSeq(fp \o <<"0", "0", "0", "0", "0", "0", "0", "0", "0">>, 1, ScaleDigits)
    IN IF s = <<"n", "a", "n">> THEN [exc |-> "none", f |-> FNaN]
       ELSE IF ~wellformed THEN [exc |-> "ValueError", f |-> FNaN]
       ELSE [exc |-> "none", f |-> F(sign * (DigitsVal(ip) * Scale + DigitsVal(fpad)))]

PyFloat(v) ==
    CASE v.k = "int" -> [exc |-> "none", f |-> F(v.n * Scale)]
      [] v.k = "float" -> [exc |-> "none", f |-> F(v.n)]
      [] v.k = "str" -> StrToFloat(v.s)
      [] v.k = "null" -> [exc |-> "TypeError", f |-> FNaN]
      [] v.k = "nan" -> [exc |-> "none", f |-> FNaN]
      [] v.k = "big" -> [exc |-> "OverflowError", f |-> FNaN]

(***************************************************************************)
(* validate_waypoint.  A waypoint is a function from the keys it holds to  *)
(* their values.  The outcome is [out, is_valid, msg, exc]: out = "return" *)
(* with the tuple (is_valid, msg), or out = "raise" with the exception     *)
(* float() raised and no handler of validate_waypoint caught.              *)
(***************************************************************************)
Return(is_valid, msg) == [out |-> "return", is_valid |-> is_valid, msg |-> msg, exc |-> "none"]
Raise(exc) == [out |-> "raise", is_valid |-> FALSE, msg |-> <<>>, exc |-> exc]
Pass == [out |-> "pass", is_valid |-> TRUE, msg |-> <<>>, exc |-> "none"]

required_fields == <<"latitude", "longitude", "altitude">>

\* except (TypeError, ValueError)
CaughtExceptions == {"TypeError", "ValueError"}

LatitudeOutOfRange(lat) == Lt(lat, -90) \/ Gt(lat, 90)
LongitudeOutOfRange(lon) == Lt(lon, -180) \/ Gt(lon, 180)
AltitudeOutOfRange(alt) == Lt(alt, 0)
HeadingOutOfRange(heading) == Lt(heading, -180) \/ Gt(heading, 360)
GimbalOutOfRange(gimbal) == Lt(gimbal, -90) \/ Gt(gimbal, 30)

\* for field in required_fields: if field not in waypoint: return False, ...
CheckRequired(waypoint) ==
    LET missing == {i \in 1..Len(required_fields) : required_fields[i] \notin DOMAIN waypoint}
        first == CHOOSE i \in missing : \A j \in missing : i <= j
    IN IF missing = {} THEN Pass
       ELSE Return(FALSE, <<"Missing required field: ", required_fields[first]>>)

CheckLatitude(waypoint) ==
    LET lat == waypoint["latitude"]
        c == PyFloat(lat)
    IN IF c.exc = "none"
       THEN IF LatitudeOutOfRange(c.f)
            THEN Return(FALSE, <<"Latitude must be between -90 and 90, got ">> \o FloatStr(c.f))
            ELSE Pass
       ELSE IF c.exc \in CaughtExceptions
            THEN Return(FALSE, <<"Latitude must be a number, got ">> \o PyStr(lat))
            ELSE Raise(c.exc)

CheckLongitude(waypoint) ==
    LET lon == waypoint["longitude"]
        c == PyFloat(lon)
    IN IF c.exc = "none"
       THEN IF LongitudeOutOfRange(c.f)
            THEN Return(FALSE, <<"Longitude must be between -180 and 180, got ">> \o FloatStr(c.f))
            ELSE Pass
       ELSE IF c.exc \in CaughtExceptions
            THEN Return(FALSE, <<"Longitude must be a number, got ">> \o PyStr(lon))
            ELSE Raise(c.exc)

CheckAltitude(waypoint) ==
    LET alt == waypoint["altitude"]
        c == PyFloat(alt)
    IN IF c.exc = "none"
       THEN IF AltitudeOutOfRange(c.f)
            THEN Return(FALSE, <<"Altitude must be non-negative, got ">> \o FloatStr(c.f))
            ELSE Pass
       ELSE IF c.exc \in CaughtExceptions
            THEN Return(FALSE, <<"Altitude must be a number, got ">> \o PyStr(alt))
            ELSE Raise(c.exc)

CheckHeading(waypoint) ==
    IF "heading" \notin DOMAIN waypoint THEN Pass
    ELSE LET heading == waypoint["heading"]
             c == PyFloat(heading)
         IN IF c.exc = "none"
            THEN IF HeadingOutOfRange(c.f)
                 THEN Return(FALSE, <<"Heading must be between -180 and 360, got ">> \o FloatStr(c.f))
                 ELSE Pass
            ELSE IF c.exc \in CaughtExceptions
                 THEN Return(FALSE, <<"Heading must be a number, got ">> \o PyStr(heading))
                 ELSE Raise(c.exc)

CheckGimbal(waypoint) ==
    IF "gimbal_pitch_angle" \notin DOMAIN waypoint THEN Pass
    ELSE LET gimbal == waypoint["gimbal_pitch_angle"]
             c == PyFloat(gimbal)
         IN IF c.exc = "none"
            THEN IF GimbalOutOfRange(c.f)
                 THEN Return(FALSE, <<"Gimbal pitch angle must be between -90 and 30, got ">> \o FloatStr(c.f))
                 ELSE Pass
            ELSE IF c.exc \in CaughtExceptions
                 THEN Return(FALSE, <<"Gimbal pitch angle must be a number, got ">> \o PyStr(gimbal))
                 ELSE Raise(c.exc)

validate_waypoint(waypoint) ==
    LET required == CheckRequired(waypoint) IN
    IF required.out # "pass" THEN required ELSE
    LET lat == CheckLatitude(waypoint) IN
    IF lat.out # "pass" THEN lat ELSE
    LET lon == CheckLongitude(waypoint) IN
    IF lon.out # "pass" THEN lon ELSE
    LET alt == CheckAltitude(waypoint) IN
    IF alt.out # "pass" THEN alt ELSE
    LET heading == CheckHeading(waypoint) IN
    IF heading.out # "pass" THEN heading ELSE
    LET gimbal == CheckGimbal(waypoint) IN
    IF gimbal.out # "pass" THEN gimbal ELSE
    Return(TRUE, <<>>)

(***************************************************************************)
(* generate_litchi_csv: the header, the mapping of a waypoint to a row,    *)
(* and csv.DictWriter's serialisation (excel dialect: QUOTE_MINIMAL,       *)
(* doubled quotes, "\r\n" line terminator).                                *)
(***************************************************************************)
LITCHI_HEADERS ==
    <<"latitude", "longitude", "altitude(m)", "heading(deg)", "curvesize(m)",
      "rotationdir", "gimbalmode", "gimbalpitchangle",
      "actiontype1", "actionparam1", "actiontype2", "actionparam2",
      "actiontype3", "actionparam3", "actiontype4", "actionparam4",
      "actiontype5", "actionparam5", "actiontype6", "actionparam6",
      "actiontype7", "actionparam7", "actiontype8", "actionparam8",
      "actiontype9", "actionparam9", "actiontype10", "actionparam10",
      "actiontype11", "actionparam11", "actiontype12", "actionparam12",
      "actiontype13", "actionparam13", "actiontype14", "actionparam14",
      "actiontype15", "actionparam15",
      "altitudemode", "speed(m/s)", "poi_latitude", "poi_longitude",
      "poi_altitude(m)", "poi_altitudemode", "photo_timeinterval",
      "photo_distinterval">>

\* dict.get(key, default)
Get(d, key, default) == IF key \in DOMAIN d THEN d[key] ELSE default

Range(seq) == {seq[i] : i \in 1..Len(seq)}

\* range(1, 16)
ActionIndexes == 1..15

\* row[column] = waypoint.get(key, default), lines 147-154
HeadAssignments ==
    <<[col |-> "latitude", key |-> "latitude", dflt |-> Int_(0)],
      [col |-> "longitude", key |-> "longitude", dflt |-> Int_(0)],
      [col |-> "altitude(m)", key |-> "altitude", dflt |-> Int_(50)],
      [col |-> "heading(deg)", key |-> "heading", dflt |-> Int_(0)],
      [col |-> "curvesize(m)", key |-> "curve_size", dflt |-> Int_(0)],
      [col |-> "rotationdir", key |-> "rotation_direction", dflt |-> Int_(0)],
      [col |-> "gimbalmode", key |-> "gimbal_mode", dflt |-> Int_(0)],
      [col |-> "gimbalpitchangle", key |-> "gimbal_pitch_angle", dflt |-> Int_(-90)]>>

\* A loop body that reads the parameter column from the type key.
ActionAssignmentsCrossed(i) ==
    {[col |-> "actiontype" \o ToString(i), key |-> "action_type_" \o ToString(i),
      dflt |-> Int_(-1)],
     [col |-> "actionparam" \o ToString(i), key |-> "action_type_" \o ToString(i),
      dflt |-> Int_(0)]}

\* the two assignments of the loop body for index i, lines 158-161
ActionAssignments(i) ==
    {[col |-> "actiontype" \o ToString(i), key |-> "action_type_" \o ToString(i),
      dflt |-> Int_(-1)],
     [col |-> "actionparam" \o ToString(i), key |-> "action_param_" \o ToString(i),
      dflt |-> Int_(0)]}

\* The assignments of lines 164-171 with the keys of the two POI coordinates swapped.
TailAssignmentsSwapped ==
    <<[col |-> "altitudemode", key |-> "altitude_mode", dflt |-> Int_(0)],
      [col |-> "speed(m/s)", key |-> "speed", dflt |-> Int_(0)],
      [col |-> "poi_latitude", key |-> "poi_longitude", dflt |-> Int_(0)],
      [col |-> "poi_longitude", key |-> "poi_latitude", dflt |-> Int_(0)],
      [col |-> "poi_altitude(m)", key |-> "poi_altitude", dflt |-> Int_(0)],
      [col |-> "poi_altitudemode", key |-> "poi_altitude_mode", dflt |-> Int_(0)],
      [col |-> "photo_timeinterval", key |-> "photo_time_interval", dflt |-> Int_(-1)],
      [col |-> "photo_distinterval", key |-> "photo_dist_interval", dflt |-> Int_(-1)]>>

\* lines 164-171
TailAssignments ==
    <<[col |-> "altitudemode", key |-> "altitude_mode", dflt |-> Int_(0)],
      [col |-> "speed(m/s)", key |-> "speed", dflt |-> Int_(0)],
      [col |-> "poi_latitude", key |-> "poi_latitude", dflt |-> Int_(0)],
      [col |-> "poi_longitude", key |-> "poi_longitude", dflt |-> Int_(0)],
      [col |-> "poi_altitude(m)", key |-> "poi_altitude", dflt |-> Int_(0)],
      [col |-> "poi_altitudemode", key |-> "poi_altitude_mode", dflt |-> Int_(0)],
      [col |-> "photo_timeinterval", key |-> "photo_time_interval", dflt |-> Int_(-1)],
      [col |-> "photo_distinterval", key |-> "photo_dist_interval", dflt |-> Int_(-1)]>>

Assignments ==
    Range(HeadAssignments)
        \cup UNION {ActionAssignments(i) : i \in ActionIndexes}
        \cup Range(TailAssignments)

\* The row dictionary built for one waypoint, lines 144-171.
BuildRow(waypoint) ==
    [c \in {a.col : a \in Assignments} |->
        LET a == CHOOSE b \in Assignments : b.col = c
        IN Get(waypoint, a.key, a.dflt)]

\* csv.writer's text of one field: None is written empty, a str as it is, anything
\* else through str().
FieldText(v) == IF v.k = "null" THEN <<>> ELSE PyStr(v)

SpecialChunks == {Comma, Quote, CR, LF}

RECURSIVE DoubleQuotes(_)
DoubleQuotes(s) ==
    IF s = <<>> THEN <<>>
    ELSE (IF Head(s) = Quote THEN <<Quote, Quote>> ELSE <<Head(s)>>)
         \o DoubleQuotes(Tail(s))

\* QUOTE_MINIMAL: a field is quoted when it holds the delimiter, the quote character
\* or a character of the line terminator.
NeedsQuotes(s) == \E i \in 1..Len(s) : s[i] \in SpecialChunks

\* A writer that never quotes.
QuoteFieldNever(s) == s

QuoteField(s) == IF NeedsQuotes(s) THEN <<Quote>> \o DoubleQuotes(s) \o <<Quote>> ELSE s

RECURSIVE JoinFields(_)
JoinFields(fields) ==
    IF Len(fields) = 0 THEN <<>>
    ELSE IF Len(fields) = 1 THEN fields[1]
    ELSE fields[1] \o <<Comma>> \o JoinFields(Tail(fields))

lineterminator == <<CR, LF>>

\* csv.writer.writerow: the text one list of fields adds to the file.
WriterRow(fields) ==
    JoinFields([i \in 1..Len(fields) |-> QuoteField(fields[i])]) \o lineterminator

\* DictWriter.writerow(row) raises ValueError for a row with a key outside
\* fieldnames (extrasaction "raise").
DictWriterRaises(fieldnames, row) == \E c \in DOMAIN row : c \notin Range(fieldnames)

\* DictWriter.writerow(row): the fields in the order of fieldnames, restval "" for a
\* fieldname the row lacks.
DictWriterRow(fieldnames, row) ==
    WriterRow([i \in 1..Len(fieldnames) |->
        IF fieldnames[i] \in DOMAIN row THEN FieldText(row[fieldnames[i]]) ELSE <<>>])

\* DictWriter.writeheader(): the row dict(zip(fieldnames, fieldnames)).
WriteHeader(fieldnames) == WriterRow([i \in 1..Len(fieldnames) |-> <<fieldnames[i]>>])

\* writer.writerow(row) for one waypoint, lines 144-173.
WriteWaypoint(waypoint) == DictWriterRow(LITCHI_HEADERS, BuildRow(waypoint))

\* A loop that stops one waypoint early.
RECURSIVE WriteWaypointsButLast(_)
WriteWaypointsButLast(waypoints) ==
    IF Len(waypoints) <= 1 THEN <<>>
    ELSE WriteWaypoint(Head(waypoints)) \o WriteWaypointsButLast(Tail(waypoints))

RECURSIVE WriteWaypoints(_)
WriteWaypoints(waypoints) ==
    IF waypoints = <<>> THEN <<>>
    ELSE WriteWaypoint(Head(waypoints)) \o WriteWaypoints(Tail(waypoints))

\* Whether writer.writerow(row) raises for this waypoint.
WriteWaypointRaises(waypoint) == DictWriterRaises(LITCHI_HEADERS, BuildRow(waypoint))

\* The whole function: the text output.getvalue() returns.
generate_litchi_csv(waypoints) == WriteHeader(LITCHI_HEADERS) \o WriteWaypoints(waypoints)

(***************************************************************************)
(* Reading a CSV text back (the excel dialect, as csv.reader reads it),    *)
(* and counting its lines (as str.splitlines counts them).  Used to state  *)
(* the properties of the generated file.                                   *)
(***************************************************************************)
\* One field, read from chunk i on.  st: "start" at the start of the field, "field" in
\* an unquoted field, "quoted" in a quoted field, "quote" after a quote character met
\* in a quoted field.  The result: the field, the index after its delimiter, what
\* ended it ("comma", "eol", "eof") and whether nothing at all was read.
RECURSIVE ParseField(_, _, _, _)
ParseField(text, i, fld, st) ==
    IF i > Len(text)
    THEN [fld |-> fld, next |-> i, end |-> "eof", blank |-> st = "start"]
    ELSE LET c == text[i] IN
         IF st = "quoted"
         THEN ParseField(text, i + 1, IF c = Quote THEN fld ELSE Append(fld, c),
                         IF c = Quote THEN "quote" ELSE "quoted")
         ELSE IF st = "quote" /\ c = Quote
         THEN ParseField(text, i + 1, Append(fld, c), "quoted")
         ELSE IF c = Comma
         THEN [fld |-> fld, next |-> i + 1, end |-> "comma", blank |-> FALSE]
         ELSE IF c = CR \/ c = LF
         THEN [fld |-> fld,
               next |-> IF c = CR /\ i < Len(text) /\ text[i + 1] = LF THEN i + 2 ELSE i + 1,
               end |-> "eol", blank |-> st = "start"]
         ELSE IF st = "start" /\ c = Quote
         THEN ParseField(text, i + 1, fld, "quoted")
         ELSE ParseField(text, i + 1, Append(fld, c), "field")

\* One record, read from chunk i on: its fields and the index after its line break.
RECURSIVE ParseRecord(_, _, _)
ParseRecord(text, i, row) ==
    LET f == ParseField(text, i, <<>>, "start")
    IN IF f.end = "comma" THEN ParseRecord(text, f.next, Append(row, f.fld))
       ELSE IF row = <<>> /\ f.blank THEN [row |-> <<>>, next |-> f.next, blank |-> TRUE]
       ELSE [row |-> Append(row, f.fld), next |-> f.next, blank |-> FALSE]

RECURSIVE ParseRecords(_, _, _)
ParseRecords(text, i, rows) ==
    IF i > Len(text) THEN rows
    ELSE LET r == ParseRecord(text, i, <<>>)
         IN ParseRecords(text, r.next, IF r.blank THEN rows ELSE Append(rows, r.row))

\* The records of a CSV text, each the sequence of its fields.
ParseCsv(text) == ParseRecords(text, 1, <<>>)

\* The number of lines of a text: one per line break (CR LF, a lone LF or a lone CR),
\* and one more for text after the last line break.
LineCount(text) ==
    Cardinality({i \in 1..Len(text) :
                    \/ text[i] = LF
                    \/ text[i] = CR /\ ~(i < Len(text) /\ text[i + 1] = LF)})
    + (IF text # <<>> /\ text[Len(text)] \notin {CR, LF} THEN 1 ELSE 0)

(***************************************************************************)
(* The inputs of the encoder's specification.                              *)
(***************************************************************************)
EmptyWaypoint == <<>>

RequiredOnly ==
    [latitude |-> Float_(430347), longitude |-> Float_(-812453), altitude |-> Int_(50)]

\* Every key the encoder reads.
InputKeys == {a.key : a \in Assignments}

EncodeValues ==
    {Int_(7), Float_(25000), Str_(<<"a", Comma, "b">>), Str_(<<"x", LF, Quote, "y">>), None_}

\* Waypoints with one key set on top of the required ones (a key the encoder reads, or
\* one outside the vocabulary), and waypoints with only one action pair set.
RichWaypoints ==
    {(f :> v) @@ RequiredOnly : f \in InputKeys \cup {"comment"}, v \in EncodeValues}
    \cup {("action_type_" \o ToString(i) :> Int_(3)) @@ ("action_param_" \o ToString(i) :> Int_(10)) :
            i \in ActionIndexes}
    \cup {[RequiredOnly EXCEPT !.altitude = Float_(500000)] @@ [curve_size |-> Str_(<<CR>>)]}

PlainWaypoints == {EmptyWaypoint, [RequiredOnly EXCEPT !.latitude = Int_(-12)] @@ [heading |-> Int_(90)]}

PlainMissions == UNION {[1..n -> PlainWaypoints] : n \in 0..MaxWaypoints}

\* Waypoint sequences of up to MaxWaypoints waypoints, at most one of them rich.
EncodeMissions ==
    PlainMissions
    \cup UNION {{[m EXCEPT ![i] = r] : i \in 1..Len(m), r \in RichWaypoints} : m \in PlainMissions}

NotRun == <<"not run">>

InitIdle ==
    /\ request = <<>>
    /\ pc = <<>>
    /\ idx = <<>>
    /\ output = <<>>
    /\ response = <<>>
    /\ calls = <<>>

InitEncode ==
    /\ InitIdle
    /\ wp = EmptyWaypoint
    /\ verdict = Pass
    /\ mission \in EncodeMissions
    /\ csv_content = NotRun

\* csv_content = generate_litchi_csv(waypoints)
Encode ==
    /\ csv_content = NotRun
    /\ ~\E i \in 1..Len(mission) : WriteWaypointRaises(mission[i])
    /\ csv_content' = generate_litchi_csv(mission)
    /\ UNCHANGED <<request, pc, idx, output, response, calls, wp, verdict, mission>>

NextEncode == Encode

SpecEncode == InitEncode /\ [][NextEncode]_vars

Encoded == csv_content # NotRun

(***************************************************************************)
(* app.py: the Flask handlers.  A request is [route, has_body, data]:      *)
(* data is what request.get_json() returns, a dictionary when has_body     *)
(* and None otherwise.  Each request r is served by its own run of the     *)
(* handler; pc[r] is its position, idx[r] its loop index, response[r] its  *)
(* response, calls[r] how often it called validate_waypoint and            *)
(* generate_litchi_csv.  output holds the io.StringIO buffers by identity. *)
(***************************************************************************)
NoResponse ==
    [status |-> 0, content_type |-> "", error |-> <<>>, body |-> <<>>, disposition |-> <<>>]

\* jsonify({"error": error}), status
JsonError(status, error) ==
    [status |-> status, content_type |-> "application/json", error |-> error,
     body |-> <<>>, disposition |-> <<>>]

\* make_response(csv_content) with the two headers set
CsvResponse(csv, filename) ==
    [status |-> 200, content_type |-> "text/csv", error |-> <<>>, body |-> csv,
     disposition |-> <<"attachment; filename=">> \o filename]

\* An exception no handler catches: Flask's own 500 page.
UnhandledError ==
    [status |-> 500, content_type |-> "text/html", error |-> <<>>, body |-> <<>>,
     disposition |-> <<>>]

\* jsonify({"status": "healthy", ...})
HealthResponse ==
    [status |-> 200, content_type |-> "application/json", error |-> <<>>,
     body |-> <<"healthy">>, disposition |-> <<>>]

\* str(e)
ExceptionText(exc) ==
    IF exc = "OverflowError" THEN <<"int too large to convert to float">>
    ELSE <<"dict contains fields not in fieldnames">>

\* The waypoints of the example mission, app.py lines 82-131.
IldertonWaypoint(lat, lon, heading) ==
    [latitude |-> Float_(lat), longitude |-> Float_(lon), altitude |-> Float_(500000),
     heading |-> Int_(heading), curve_size |-> Int_(0), rotation_direction |-> Int_(0),
     gimbal_mode |-> Int_(0), gimbal_pitch_angle |-> Int_(-90),
     action_type_1 |-> Int_(-1), action_param_1 |-> Int_(0)]

\* The example mission with the headings of its last two waypoints exchanged.
IldertonWaypointsReordered ==
    <<IldertonWaypoint(430347, -812453, 0),
      IldertonWaypoint(430357, -812453, 90),
      IldertonWaypoint(430357, -812443, 270),
      IldertonWaypoint(430347, -812443, 180)>>

IldertonWaypoints ==
    <<IldertonWaypoint(430347, -812453, 0),
      IldertonWaypoint(430357, -812453, 90),
      IldertonWaypoint(430357, -812443, 180),
      IldertonWaypoint(430347, -812443, 270)>>

\* if not data
NotData(req) == ~req.has_body \/ DOMAIN req.data = {}

\* mission_name = data.get('mission_name', 'mission')
MissionName(req) == Get(req.data, "mission_name", <<"mission">>)

\* waypoints = data.get('waypoints', [])
DataWaypoints(req) == Get(req.data, "waypoints", <<>>)

\* A handler without the check of the waypoint list.
NotWaypointsNever(waypoints) == FALSE

\* if not waypoints
NotWaypoints(waypoints) == waypoints = <<>>

\* The list the running handler encodes.
Waypoints(r) ==
    IF request[r].route = "example_ilderton_mission" THEN IldertonWaypoints
    ELSE DataWaypoints(request[r])

\* One buffer kept at module level and used by every call.
SharedStringIO(r) == 0

\* output = io.StringIO(): a new object for every call.  Request r makes at most one
\* call, so its buffer is identified by r.
NewStringIO(r) == r

NoCalls == [validate |-> 0, generate |-> 0]

IdleRequest == [route |-> "", has_body |-> FALSE, data |-> <<>>]

InitRequests(R) ==
    /\ request = [r \in R |-> IdleRequest]
    /\ pc = [r \in R |-> "idle"]
    /\ idx = [r \in R |-> 0]
    /\ output = <<>>
    /\ response = [r \in R |-> NoResponse]
    /\ calls = [r \in R |-> NoCalls]
    /\ wp = EmptyWaypoint
    /\ verdict = Pass
    /\ mission = <<>>
    /\ csv_content = NotRun

pure == <<wp, verdict, mission, csv_content>>

\* The router hands request req to the handler of its route.
Receive(r, req) ==
    /\ pc[r] = "idle"
    /\ request' = [request EXCEPT ![r] = req]
    /\ pc' = [pc EXCEPT ![r] = req.route]
    /\ UNCHANGED <<idx, output, response, calls, pure>>

Finish(r, resp) ==
    /\ response' = [response EXCEPT ![r] = resp]
    /\ pc' = [pc EXCEPT ![r] = "done"]

\* health()
health(r) ==
    /\ pc[r] = "health"
    /\ Finish(r, HealthResponse)
    /\ UNCHANGED <<request, idx, output, calls, pure>>

\* generate_mission(), lines 44-53: the two early returns, or on to the loop.
generate_mission(r) ==
    /\ pc[r] = "generate_mission"
    /\ IF NotData(request[r])
       THEN Finish(r, JsonError(400, <<"No data provided">>))
       ELSE IF NotWaypoints(DataWaypoints(request[r]))
       THEN Finish(r, JsonError(400, <<"No waypoints provided">>))
       ELSE /\ pc' = [pc EXCEPT ![r] = "validate"]
            /\ UNCHANGED response
    /\ UNCHANGED <<request, idx, output, calls, pure>>

\* One iteration of the loop of lines 56-59; an exception of validate_waypoint is
\* caught at line 71.
ValidateNext(r) ==
    /\ pc[r] = "validate"
    /\ idx[r] < Len(Waypoints(r))
    /\ LET v == validate_waypoint(Waypoints(r)[idx[r] + 1])
       IN /\ calls' = [calls EXCEPT ![r].validate = @ + 1]
          /\ IF v.out = "raise"
             THEN /\ Finish(r, JsonError(500, ExceptionText(v.exc)))
                  /\ UNCHANGED idx
             ELSE IF ~v.is_valid
             THEN /\ Finish(r, JsonError(400, <<"Waypoint ">> \o IntStr(idx[r]) \o <<": ">> \o v.msg))
                  /\ UNCHANGED idx
             ELSE /\ idx' = [idx EXCEPT ![r] = @ + 1]
                  /\ UNCHANGED <<pc, response>>
    /\ UNCHANGED <<request, output, pure>>

\* The loop has run through: line 62 calls generate_litchi_csv.
ValidationDone(r) ==
    /\ pc[r] = "validate"
    /\ idx[r] = Len(Waypoints(r))
    /\ pc' = [pc EXCEPT ![r] = "generate_litchi_csv"]
    /\ UNCHANGED <<request, idx, output, response, calls, pure>>

\* example_ilderton_mission(), line 133: calls generate_litchi_csv on its own list.
example_ilderton_mission(r) ==
    /\ pc[r] = "example_ilderton_mission"
    /\ pc' = [pc EXCEPT ![r] = "generate_litchi_csv"]
    /\ UNCHANGED <<request, idx, output, response, calls, pure>>

\* generate_litchi_csv, lines 136-140: a new buffer, the header written to it.
OpenWriter(r) ==
    /\ pc[r] = "generate_litchi_csv"
    /\ output' = (NewStringIO(r) :> WriteHeader(LITCHI_HEADERS)) @@ output
    /\ idx' = [idx EXCEPT ![r] = 0]
    /\ calls' = [calls EXCEPT ![r].generate = @ + 1]
    /\ pc' = [pc EXCEPT ![r] = "rows"]
    /\ UNCHANGED <<request, response, pure>>

\* One iteration of the loop of lines 143-173.  A ValueError of writerow is caught
\* at line 71 in generate_mission and by nothing in example_ilderton_mission.
WriteRow(r) ==
    /\ pc[r] = "rows"
    /\ idx[r] < Len(Waypoints(r))
    /\ LET waypoint == Waypoints(r)[idx[r] + 1]
       IN IF WriteWaypointRaises(waypoint)
          THEN /\ Finish(r, IF request[r].route = "generate_mission"
                            THEN JsonError(500, ExceptionText("ValueError"))
                            ELSE UnhandledError)
               /\ UNCHANGED <<idx, output>>
          ELSE /\ output' = [output EXCEPT ![NewStringIO(r)] = @ \o WriteWaypoint(waypoint)]
               /\ idx' = [idx EXCEPT ![r] = @ + 1]
               /\ UNCHANGED <<pc, response>>
    /\ UNCHANGED <<request, calls, pure>>

\* Lines 175-178, then the caller's make_response with its headers.
GetValue(r) ==
    /\ pc[r] = "rows"
    /\ idx[r] = Len(Waypoints(r))
    /\ LET csv == output[NewStringIO(r)]
       IN Finish(r, CsvResponse(csv,
              IF request[r].route = "generate_mission"
              THEN MissionName(request[r]) \o <<".csv">>
              ELSE <<"ilderton_mission.csv">>))
    /\ UNCHANGED <<request, idx, output, calls, pure>>

(***************************************************************************)
(* The requests of the specifications.                                     *)
(***************************************************************************)
OutOfRangeLatitude == [latitude |-> Int_(999), longitude |-> Int_(0), altitude |-> Int_(0)]

MissingAltitude == [latitude |-> Int_(10), longitude |-> Str_(<<"2", "0">>)]

HugeLatitude == [latitude |-> Big_, longitude |-> Int_(0), altitude |-> Int_(0)]

NaNLatitude == [latitude |-> NaN_, longitude |-> Int_(0), altitude |-> Int_(0)]

QuotedCurve == RequiredOnly @@ [heading |-> Int_(360), curve_size |-> Str_(<<"a", LF, "b">>)]

HandlerWaypoints ==
    {RequiredOnly, QuotedCurve, OutOfRangeLatitude, MissingAltitude, HugeLatitude, NaNLatitude}

WaypointLists == UNION {[1..n -> HandlerWaypoints] : n \in 0..MaxWaypoints}

Post(has_body, data) == [route |-> "generate_mission", has_body |-> has_body, data |-> data]

GetRoute(route) == [route |-> route, has_body |-> FALSE, data |-> <<>>]

PostRequests ==
    {Post(FALSE, <<>>), Post(TRUE, <<>>), Post(TRUE, [mission_name |-> <<"survey">>])}
    \cup {Post(TRUE, [waypoints |-> w]) : w \in WaypointLists}
    \cup {Post(TRUE, [mission_name |-> <<"survey">>, waypoints |-> w]) : w \in WaypointLists}

Requests == PostRequests \cup {GetRoute("example_ilderton_mission"), GetRoute("health")}

\* The requests served concurrently.
ConcurrentRequests ==
    {Post(TRUE, [waypoints |-> <<RequiredOnly>>]),
     Post(TRUE, [mission_name |-> <<"survey">>, waypoints |-> <<QuotedCurve, NaNLatitude>>]),
     Post(TRUE, [waypoints |-> <<RequiredOnly, OutOfRangeLatitude>>]),
     Post(TRUE, [waypoints |-> <<HugeLatitude>>]),
     Post(TRUE, [mission_name |-> <<"survey">>]),
     GetRoute("example_ilderton_mission")}

Handlers == 1..NumRequests

(***************************************************************************)
(* Spec: one request, served from its arrival to its response.             *)
(***************************************************************************)
Init == InitRequests({1})

Next ==
    \E r \in {1} :
        \/ \E req \in Requests : Receive(r, req)
        \/ health(r)
        \/ generate_mission(r)
        \/ ValidateNext(r)
        \/ ValidationDone(r)
        \/ example_ilderton_mission(r)
        \/ OpenWriter(r)
        \/ WriteRow(r)
        \/ GetValue(r)

Spec == Init /\ [][Next]_vars

(***************************************************************************)
(* SpecConcurrent: NumRequests requests served at once, their handlers'    *)
(* steps interleaved in every order.                                       *)
(***************************************************************************)
InitConcurrent == InitRequests(Handlers)

NextConcurrent ==
    \E r \in Handlers :
        \/ \E req \in ConcurrentRequests : Receive(r, req)
        \/ generate_mission(r)
        \/ ValidateNext(r)
        \/ ValidationDone(r)
        \/ example_ilderton_mission(r)
        \/ OpenWriter(r)
        \/ WriteRow(r)
        \/ GetValue(r)

SpecConcurrent == InitConcurrent /\ [][NextConcurrent]_vars

(***************************************************************************)
(* SpecValidate: validate_waypoint applied to one waypoint.                *)
(***************************************************************************)
Absent == [k |-> "absent", n |-> 0, s |-> <<>>]

\* The waypoint holding the keys of t whose value is not Absent.
MakeWaypoint(t) == [f \in {g \in DOMAIN t : t[g] # Absent} |-> t[f]]

ValidateWaypoints ==
    {MakeWaypoint(t) : t \in
        [latitude : {Absent, Int_(-91), Int_(-90), Int_(90), Int_(91), Float_(900001),
                     Str_(<<"4", "5", ".", "5">>), Str_(<<"a", "b", "c">>), None_, NaN_, Big_},
         longitude : {Absent, Int_(-181), Int_(-180), Int_(180), Int_(181),
                      Str_(<<"-", "1", "8", "0">>), Str_(<<>>), NaN_},
         altitude : {Absent, Int_(-1), Int_(0), Float_(-1), Int_(50), None_, Big_},
         heading : {Absent, Int_(-181), Int_(-180), Int_(360), Int_(361), Str_(<<"n", "o">>)},
         gimbal_pitch_angle : {Absent, Int_(-91), Int_(-90), Int_(30), Int_(31), None_},
         speed : {Absent, Str_(<<"f", "a", "s", "t">>)}]}

InitValidate ==
    /\ InitIdle
    /\ wp \in ValidateWaypoints
    /\ verdict = Pass
    /\ mission = <<>>
    /\ csv_content = NotRun

\* is_valid, error_msg = validate_waypoint(waypoint)
Validate ==
    /\ verdict = Pass
    /\ verdict' = validate_waypoint(wp)
    /\ UNCHANGED <<request, pc, idx, output, response, calls, wp, mission, csv_content>>

NextValidate == Validate

SpecValidate == InitValidate /\ [][NextValidate]_vars

Validated == verdict # Pass

(***************************************************************************)
(* The documented contract, stated on its own: the column order and the    *)
(* defaults of the format, the ranges of the validator, and the response   *)
(* of a request served alone.                                              *)
(***************************************************************************)
DocumentedColumns ==
    <<"latitude", "longitude", "altitude(m)", "heading(deg)", "curvesize(m)",
      "rotationdir", "gimbalmode", "gimbalpitchangle">>
    \o [j \in 1..30 |-> IF j % 2 = 1 THEN "actiontype" \o ToString((j + 1) \div 2)
                                      ELSE "actionparam" \o ToString(j \div 2)]
    \o <<"altitudemode", "speed(m/s)", "poi_latitude", "poi_longitude",
         "poi_altitude(m)", "poi_altitudemode", "photo_timeinterval",
         "photo_distinterval">>

DocumentedIndex(col) == CHOOSE i \in 1..Len(DocumentedColumns) : DocumentedColumns[i] = col

\* input field, output column, default
DocumentedFields ==
    {<<"latitude", "latitude", 0>>, <<"longitude", "longitude", 0>>,
     <<"altitude", "altitude(m)", 50>>, <<"heading", "heading(deg)", 0>>,
     <<"curve_size", "curvesize(m)", 0>>, <<"rotation_direction", "rotationdir", 0>>,
     <<"gimbal_mode", "gimbalmode", 0>>, <<"gimbal_pitch_angle", "gimbalpitchangle", -90>>,
     <<"altitude_mode", "altitudemode", 0>>, <<"speed", "speed(m/s)", 0>>,
     <<"poi_latitude", "poi_latitude", 0>>, <<"poi_longitude", "poi_longitude", 0>>,
     <<"poi_altitude", "poi_altitude(m)", 0>>, <<"poi_altitude_mode", "poi_altitudemode", 0>>,
     <<"photo_time_interval", "photo_timeinterval", -1>>,
     <<"photo_dist_interval", "photo_distinterval", -1>>}

DocumentedActionFields ==
    UNION {{<<"action_type_" \o ToString(i), "actiontype" \o ToString(i), -1>>,
            <<"action_param_" \o ToString(i), "actionparam" \o ToString(i), 0>>} : i \in 1..15}

\* The text a column must hold for a waypoint: the field's value as received, or the
\* default written as the integer it is.
Expected(waypoint, d) ==
    IF d[1] \in DOMAIN waypoint THEN FieldText(waypoint[d[1]]) ELSE IntStr(d[3])

RowsAsDocumented(rows, waypoints, fields) ==
    \A k \in 1..Len(waypoints) : \A d \in fields :
        rows[k + 1][DocumentedIndex(d[2])] = Expected(waypoints[k], d)

\* The checked fields in their order: key, label, whether a lower and an upper bound
\* apply, and the bounds.
DocumentedChecks ==
    <<[key |-> "latitude", label |-> "Latitude", lo |-> -90, hi |-> 90, bounded |-> TRUE],
      [key |-> "longitude", label |-> "Longitude", lo |-> -180, hi |-> 180, bounded |-> TRUE],
      [key |-> "altitude", label |-> "Altitude", lo |-> 0, hi |-> 0, bounded |-> FALSE],
      [key |-> "heading", label |-> "Heading", lo |-> -180, hi |-> 360, bounded |-> TRUE],
      [key |-> "gimbal_pitch_angle", label |-> "Gimbal pitch angle", lo |-> -90, hi |-> 30,
       bounded |-> TRUE]>>

DocumentedRequired == <<"latitude", "longitude", "altitude">>

\* A value that reads as a (real) number.
IsNumber(v) ==
    \/ v.k \in {"int", "float", "big"}
    \/ v.k = "str" /\ StrToFloat(v.s).exc = "none" /\ ~StrToFloat(v.s).f.nan

\* The number a value reads as, in units of 1/Scale (for a value that is one and is
\* not beyond the floats).
UnitsOf(v) == IF v.k = "int" THEN v.n * Scale
              ELSE IF v.k = "float" THEN v.n
              ELSE StrToFloat(v.s).f.u

InDocumentedRange(v, c) ==
    /\ IsNumber(v)
    /\ v.k # "big"
    /\ UnitsOf(v) >= c.lo * Scale
    /\ c.bounded => UnitsOf(v) <= c.hi * Scale

\* The positions of the faults of a waypoint in the documented order: 1..3 a missing
\* required field, 3 + i the i-th checked field, present and not a number or not in
\* its range.
DocumentedFaults(waypoint) ==
    {i \in 1..3 : DocumentedRequired[i] \notin DOMAIN waypoint}
    \cup {3 + i : i \in {j \in 1..5 :
            /\ DocumentedChecks[j].key \in DOMAIN waypoint
            /\ ~InDocumentedRange(waypoint[DocumentedChecks[j].key], DocumentedChecks[j])}}

DocumentedValid(waypoint) == DocumentedFaults(waypoint) = {}

RangeText(c) ==
    IF c.bounded
    THEN c.label \o " must be between " \o ToString(c.lo) \o " and " \o ToString(c.hi) \o ", got "
    ELSE c.label \o " must be non-negative, got "

\* The messages the documented contract allows for the fault at position p: the
\* missing-field message, the coercion message with the value as received, or the
\* range message with the coerced value.
DocumentedMessages(waypoint, p) ==
    IF p <= 3 THEN {<<"Missing required field: ", DocumentedRequired[p]>>}
    ELSE LET c == DocumentedChecks[p - 3]
             v == waypoint[c.key]
         IN IF ~IsNumber(v) THEN {<<c.label \o " must be a number, got ">> \o PyStr(v)}
            ELSE IF v.k = "big" THEN {<<RangeText(c)>> \o PyStr(v)}
            ELSE {<<RangeText(c)>> \o FiniteStr(UnitsOf(v))}

\* The first waypoint of a list the validator rejects, 0 when it rejects none.
Rejected(waypoint) ==
    LET v == validate_waypoint(waypoint) IN v.out = "return" /\ ~v.is_valid

FirstRejected(waypoints) ==
    IF \E i \in 1..Len(waypoints) : Rejected(waypoints[i])
    THEN CHOOSE i \in 1..Len(waypoints) :
            /\ Rejected(waypoints[i])
            /\ \A j \in 1..(i - 1) : ~Rejected(waypoints[j])
    ELSE 0

\* The first waypoint of a list on which the validator does anything but return valid.
FirstNotValid(waypoints) ==
    LET bad == {i \in 1..Len(waypoints) :
                    LET v == validate_waypoint(waypoints[i])
                    IN ~(v.out = "return" /\ v.is_valid)}
    IN IF bad = {} THEN 0 ELSE CHOOSE i \in bad : \A j \in bad : i <= j

\* The response of a request served alone, from its body only.
SoloResponse(req) ==
    IF req.route = "health" THEN HealthResponse
    ELSE IF req.route = "example_ilderton_mission"
    THEN CsvResponse(generate_litchi_csv(IldertonWaypoints), <<"ilderton_mission.csv">>)
    ELSE IF ~req.has_body \/ DOMAIN req.data = {}
    THEN JsonError(400, <<"No data provided">>)
    ELSE IF "waypoints" \notin DOMAIN req.data \/ Len(req.data.waypoints) = 0
    THEN JsonError(400, <<"No waypoints provided">>)
    ELSE LET ws == req.data.waypoints
             i == FirstNotValid(ws)
             v == validate_waypoint(ws[i])
             name == IF "mission_name" \in DOMAIN req.data THEN req.data.mission_name
                     ELSE <<"mission">>
         IN IF i = 0 THEN CsvResponse(generate_litchi_csv(ws), name \o <<".csv">>)
            ELSE IF v.out = "raise" THEN JsonError(500, ExceptionText(v.exc))
            ELSE JsonError(400, <<"Waypoint ">> \o IntStr(i - 1) \o <<": ">> \o v.msg)

Served(r) == pc[r] = "done"

(***************************************************************************)
(* Properties.                                                             *)
(***************************************************************************)
GenerateMissionServed(r) == Served(r) /\ request[r].route = "generate_mission"

BodyPresent(req) == req.has_body /\ DOMAIN req.data # {}

NoWaypointList(req) ==
    "waypoints" \notin DOMAIN req.data \/ Len(req.data.waypoints) = 0

\* C1: a POST to generate-mission whose non-empty waypoint list holds a waypoint that
\* validate_waypoint rejects is answered 400 "Waypoint <i>: <msg>", i the 0-based index
\* of the first rejected waypoint and msg the validator's message for it;
\* generate_litchi_csv is not called and no CSV text is returned.
C1_FirstInvalidWaypointReported ==
    \A r \in DOMAIN pc :
        (/\ GenerateMissionServed(r)
         /\ BodyPresent(request[r])
         /\ ~NoWaypointList(request[r])
         /\ FirstRejected(request[r].data.waypoints) # 0)
        => LET ws == request[r].data.waypoints
               i == FirstRejected(ws)
           IN /\ response[r].status = 400
              /\ response[r].error =
                    <<"Waypoint ">> \o IntStr(i - 1) \o <<": ">> \o validate_waypoint(ws[i]).msg
              /\ response[r].body = <<>>
              /\ calls[r].generate = 0

\* C2: validate_waypoint returns exactly the first failure in the documented order:
\* the three presence checks, then for latitude, longitude, altitude, heading (if
\* present) and gimbal_pitch_angle (if present) the coercion check and the range
\* check; a waypoint with several faults reports the earliest, and only that one.
C2_FirstFailureInOrder ==
    Validated =>
        /\ verdict.out = "return"
        /\ IF DocumentedValid(wp)
           THEN verdict.is_valid /\ verdict.msg = <<>>
           ELSE LET faults == DocumentedFaults(wp)
                    p == CHOOSE i \in faults : \A j \in faults : i <= j
                IN ~verdict.is_valid /\ verdict.msg \in DocumentedMessages(wp, p)

\* The waypoint without the keys the validator does not check.
CheckedPart(waypoint) ==
    [f \in DOMAIN waypoint \cap {DocumentedChecks[i].key : i \in 1..5} |-> waypoint[f]]

\* C3: validate_waypoint returns valid exactly when latitude, longitude and altitude
\* are present, every checked value reads as a number and lies in its inclusive range
\* (latitude [-90, 90], longitude [-180, 180], altitude >= 0, heading [-180, 360],
\* gimbal_pitch_angle [-90, 30]); no other field affects the verdict.
C3_ValidIffInRange ==
    Validated =>
        /\ (verdict.out = "return" /\ verdict.is_valid) <=> DocumentedValid(wp)
        /\ validate_waypoint(CheckedPart(wp)) = verdict

\* C4 as claimed: for every waypoint sequence of length N and whatever values its
\* waypoints carry, the text has exactly N+1 lines, the header line and one line per
\* waypoint.
C4_ExactlyNPlusOneLines ==
    Encoded =>
        /\ LineCount(csv_content) = Len(mission) + 1
        /\ Len(ParseCsv(csv_content)) = Len(mission) + 1

\* Whether a value written to a column of some row holds a line break.
LineBreakWritten(waypoints) ==
    \E k \in 1..Len(waypoints) : \E f \in DOMAIN waypoints[k] \cap InputKeys :
        \E i \in 1..Len(FieldText(waypoints[k][f])) : FieldText(waypoints[k][f])[i] \in {CR, LF}

\* C4 as amended: the text holds exactly N+1 CSV records, the header and one per
\* waypoint, so the number of data rows equals the number of waypoints; it has exactly
\* N+1 lines whenever no value written to a column holds a line break.
C4_RecordsPerWaypoint ==
    Encoded =>
        /\ Len(ParseCsv(csv_content)) = Len(mission) + 1
        /\ ~LineBreakWritten(mission) => LineCount(csv_content) = Len(mission) + 1

C4_Witness ==
    /\ Encoded
    /\ Len(mission) >= 2
    /\ LineBreakWritten(mission)
    /\ LineCount(csv_content) > Len(mission) + 1

\* The waypoint without the keys outside the vocabulary of the format.
KnownPart(waypoint) == [f \in DOMAIN waypoint \cap InputKeys |-> waypoint[f]]

\* C5: the first row is the documented 46-name header in its order, and every data row
\* has exactly 46 fields, whichever optional fields the waypoints supply; keys outside
\* the vocabulary add no column and change no field.
C5_HeaderAndColumns ==
    Encoded =>
        LET rows == ParseCsv(csv_content)
        IN /\ Len(rows) >= 1
           /\ rows[1] = [i \in 1..46 |-> <<DocumentedColumns[i]>>]
           /\ \A k \in 1..Len(rows) : Len(rows[k]) = 46
           /\ csv_content = generate_litchi_csv([k \in 1..Len(mission) |-> KnownPart(mission[k])])

C5_Witness ==
    /\ Encoded
    /\ Len(mission) >= 2
    /\ \E k \in 1..Len(mission) : "comment" \in DOMAIN mission[k] /\ mission[k]["comment"].k = "str"
    /\ \E k \in 1..Len(mission) : mission[k] = EmptyWaypoint

\* C6: the k-th data row is derived from the k-th waypoint only, and each column holds
\* the value of its input field as received when the waypoint has the field and the
\* documented default otherwise.
C6_RowsCopyOrDefault ==
    Encoded =>
        LET rows == ParseCsv(csv_content)
        IN /\ Len(rows) = Len(mission) + 1
           /\ RowsAsDocumented(rows, mission, DocumentedFields)

C6_Witness ==
    /\ Encoded
    /\ Len(mission) >= 2
    /\ \E k \in 1..Len(mission) :
          /\ "speed" \in DOMAIN mission[k]
          /\ mission[k]["speed"].k = "str"
          /\ {"latitude", "longitude", "altitude"} \subseteq DOMAIN mission[k]
          /\ "poi_latitude" \notin DOMAIN mission[k]
    /\ \E k \in 1..Len(mission) : "speed" \notin DOMAIN mission[k]

\* C7: for every i in 1..15, column actiontype<i> holds action_type_<i> if present and
\* -1 otherwise, column actionparam<i> holds action_param_<i> if present and 0
\* otherwise; a pair set at index i changes no action column of another index.
C7_ActionColumns ==
    Encoded =>
        LET rows == ParseCsv(csv_content)
        IN /\ Len(rows) = Len(mission) + 1
           /\ RowsAsDocumented(rows, mission, DocumentedActionFields)

C7_Witness ==
    /\ Encoded
    /\ \E k \in 1..Len(mission) :
          /\ DOMAIN mission[k] = {"action_type_5", "action_param_5"}
          /\ ParseCsv(csv_content)[k + 1][DocumentedIndex("actiontype5")] = <<"3">>
          /\ ParseCsv(csv_content)[k + 1][DocumentedIndex("actionparam5")] = <<"1", "0">>
          /\ ParseCsv(csv_content)[k + 1][DocumentedIndex("actiontype6")] = <<"-", "1">>

C9_ResponsesIndependent ==
    /\ \A r \in DOMAIN pc : Served(r) => response[r] = SoloResponse(request[r])
    /\ \A r1, r2 \in DOMAIN pc :
          (Served(r1) /\ Served(r2) /\ request[r1] = request[r2]) => response[r1] = response[r2]

C9_Witness ==
    \E r1, r2 \in DOMAIN pc :
        /\ r1 # r2
        /\ Served(r1)
        /\ Served(r2)
        /\ response[r1].status = 200
        /\ response[r2].status = 200
        /\ response[r1].body # response[r2].body
        /\ {r1, r2} \subseteq DOMAIN output

IldertonHeadings == <<0, 90, 180, 270>>

\* C10: the example mission is answered 200 with exactly 5 lines, the header and 4
\* rows whose heading is 0, 90, 180, 270 in this order, altitude 50 and gimbal pitch
\* -90 in every row and every other column but latitude and longitude at its default;
\* each of its waypoints passes validate_waypoint, which the endpoint never calls.
C10_IldertonMission ==
    \A r \in DOMAIN pc :
        (Served(r) /\ request[r].route = "example_ilderton_mission") =>
            LET rows == ParseCsv(response[r].body)
                col(k, c) == rows[k + 1][DocumentedIndex(c)]
                given == {"latitude", "longitude", "altitude(m)", "heading(deg)"}
            IN /\ response[r].status = 200
               /\ response[r].content_type = "text/csv"
               /\ response[r].disposition = <<"attachment; filename=", "ilderton_mission.csv">>
               /\ LineCount(response[r].body) = 5
               /\ Len(rows) = 5
               /\ rows[1] = [i \in 1..46 |-> <<DocumentedColumns[i]>>]
               /\ \A k \in 1..4 :
                     /\ Len(rows[k + 1]) = 46
                     /\ col(k, "heading(deg)") = IntStr(IldertonHeadings[k])
                     /\ StrToFloat(col(k, "altitude(m)")) = [exc |-> "none", f |-> F(50 * Scale)]
                     /\ col(k, "gimbalpitchangle") = IntStr(-90)
                     /\ col(k, "latitude") \notin {<<>>, <<"0">>}
                     /\ col(k, "longitude") \notin {<<>>, <<"0">>}
                     /\ \A d \in DocumentedFields \cup DocumentedActionFields :
                           d[2] \notin given => col(k, d[2]) = IntStr(d[3])
               /\ calls[r].validate = 0
               /\ \A k \in 1..4 : validate_waypoint(IldertonWaypoints[k]) = Return(TRUE, <<>>)

C10_Witness ==
    \E r \in DOMAIN pc :
        /\ Served(r)
        /\ request[r].route = "example_ilderton_mission"
        /\ response[r].status = 200

====
